---- MODULE Spec2Model ----
(***************************************************************************)
(* A model of the snoots session Client (client.ts) and of the Gateway     *)
(* (gateway/gateway.ts).                                                    *)
(*                                                                         *)
(* Spec        : one Client, its construction (constructor or              *)
(*               fromAuthCode) and a bounded number of concurrent          *)
(*               get/post/postJson/reAuth calls.  Every `await` of the     *)
(*               code is a point where another call may run.               *)
(* GatewaySpec : one Gateway call: buildOptions, the request, the          *)
(*               rate-limit hook and unwrap, over a bounded set of         *)
(*               response bodies and headers.                              *)
(***************************************************************************)
EXTENDS Integers, Sequences, FiniteSets, TLC

VARIABLES
    creds,      \* Client.creds: TRUE iff Credentials were configured
    auth,       \* Client.auth: the stored AuthDescriptor
    token,      \* Client.token: Null or a Token
    now,        \* Date.now(), in lifetime units
    boot,       \* how the Client came to be: "new" or a fromAuthCode stage
    exchanges,  \* log of grant exchanges; an access value is its index here
    calls,      \* one record per call slot
    gw,         \* the Gateway call in progress (GatewaySpec)
    rateLimit   \* Gateway.rateLimit (GatewaySpec)

vars == <<creds, auth, token, now, boot, exchanges, calls, gw, rateLimit>>
clientVars == <<creds, auth, token, now, boot, exchanges, calls>>
gatewayVars == <<gw, rateLimit>>

---------------------------------------------------------------------------
\* Bounds: the calls made on one Client, and the last instant of the clock.

NumCalls == 2
MaxTime == 2

Slots == 1..NumCalls

---------------------------------------------------------------------------
\* Values

Absent == "<absent>"
Null == [null |-> TRUE]
\* Gateway.rateLimit before any response
NoRateLimit == [undefined |-> TRUE]

NoAuth == [kind |-> "none", value |-> Absent]
UsernameAuth(u) == [kind |-> "password", value |-> u]
TokenAuth(r) == [kind |-> "refresh", value |-> r]

\* The descriptors a Client is constructed with, and those reAuth is given.
InitAuths == {NoAuth, UsernameAuth("u1:p1"), TokenAuth("r0")}
NewAuths == {UsernameAuth("u2:p2"), TokenAuth("r1")}

\* The lifetimes (expires_in) the provider declares.
Lifetimes == {1}

\* The refresh value the provider may put in a token response: only the
\* authorization-code and refresh-token grants issue one.
RefreshVals(grant) ==
    CASE grant = "authorization_code" -> {Absent, "rt"}
      [] grant = "refresh_token" -> {"rt"}
      [] OTHER -> {Absent}

CallOps == {"get", "post", "postJson"}

\* The calls made on the Client: every operation, more than one path.
Inputs == {<<"get", "/api/a">>, <<"post", "/api/b">>, <<"postJson", "/api/a">>}

PublicHost == "www.reddit.com"
OAuthHost == "oauth.reddit.com"
UserAgent == "ua"

NoRequest == [sent |-> FALSE]
NoHeader == <<>>
NoQuery == [k \in {} |-> Absent]

IdleCall ==
    [pc |-> "idle", op |-> "none", path |-> Absent, arg |-> NoAuth,
     route |-> "none", ex |-> 0, pending |-> Null,
     request |-> NoRequest, outcome |-> "none"]

---------------------------------------------------------------------------
\* Token Manager (helper/accessToken)

\* "present and not past its expiry"
TokenValid(t, n) == t # Null /\ ~(t.expiration < n)

GrantFor(a) ==
    CASE a.kind = "password" -> "password"
      [] a.kind = "refresh" -> "refresh_token"
      [] OTHER -> "client_credentials"

NewToken(ex, refresh, lifetime) ==
    [access |-> ex, refresh |-> refresh, expiration |-> now + lifetime]

InFlight == {i \in 1..Len(exchanges) : exchanges[i].status = "inflight"}

NewExchange(grant, desc, by) ==
    [grant |-> grant, desc |-> desc, by |-> by, status |-> "inflight"]

Finish(i, status) == [exchanges EXCEPT ![i].status = status]

---------------------------------------------------------------------------
\* Gateway.buildOptions and the two variants

Merge(f, g) == [k \in DOMAIN f \cup DOMAIN g |-> IF k \in DOMAIN g THEN g[k] ELSE f[k]]

QueryDefaults == [raw_json |-> "1", api_type |-> "json"]

buildOptionsAlwaysBearer(endpoint, query, a) ==
    [prefixUrl |-> endpoint, userAgent |-> UserAgent,
     searchParams |-> Merge(query, QueryDefaults),
     Authorization |-> <<"bearer", IF a.kind = "bearer" THEN a.bearer ELSE 0>>,
     username |-> Absent, password |-> Absent]

buildOptions(endpoint, query, a) ==
    [prefixUrl |-> endpoint, userAgent |-> UserAgent,
     searchParams |-> Merge(query, QueryDefaults),
     Authorization |-> IF a.kind = "bearer" THEN <<"bearer", a.bearer>> ELSE NoHeader,
     username |-> IF a.kind = "basic" THEN a.user ELSE Absent,
     password |-> IF a.kind = "basic" THEN a.pass ELSE Absent]

NoGwAuth == [kind |-> "none"]
BearerAuth(access) == [kind |-> "bearer", bearer |-> access]
BasicAuth(user, pass) == [kind |-> "basic", user |-> user, pass |-> pass]

\* helper/api/anon and helper/api/oauth: the request each issues.
AnonRequest(path) ==
    [sent |-> TRUE, path |-> path,
     options |-> buildOptions(PublicHost, NoQuery, NoGwAuth)]

OAuthRequest(opts, path) ==
    [sent |-> TRUE, path |-> path,
     options |-> buildOptions(OAuthHost, NoQuery, BearerAuth(opts.token))]

---------------------------------------------------------------------------
\* Client

Constructed == boot \in {"new", "code_exchanging", "code_done", "code_rejected"}
Usable == boot \in {"new", "code_done"}

UseOAuthByAuth == auth # NoAuth

\* get/post/postJson: if (this.creds)
UseOAuth == creds

ReAuthKeepToken(d) == [auth |-> d, token |-> token]
ReAuthKeepAuth(d) == [auth |-> auth, token |-> Null]

\* reAuth: this.auth = auth; this.token = null
ReAuthState(d) == [auth |-> d, token |-> Null]

HelperArgsNoToken(t, a) == [token |-> Null, auth |-> a]
HelperArgsNoAuth(t, a) == [token |-> t, auth |-> NoAuth]

\* updateAccessToken: the arguments read from this.token and this.auth
HelperArgs(t, a) == [token |-> t, auth |-> a]

StoreIfMissing(cur, new) == IF cur = Null THEN new ELSE cur

\* updateAccessToken: this.token = <result of the await>
StoreToken(cur, new) == new

RejectedSwallowed(c) == [c EXCEPT !.pc = "opts"]

\* a rejected exchange: the throw leaves updateAccessToken, oAuth and the call
Rejected(c) == [c EXCEPT !.pc = "done", !.outcome = "AuthError"]

ReturnedRetry(c) == [c EXCEPT !.pc = "opts"]

\* The call settles with the result of oauth.get/post/postJson or of
\* anon.get/post/postJson (the Gateway's part is GatewaySpec): its locals
\* are gone, that it issued a request remains.
Returned(c) ==
    [c EXCEPT !.pc = "done", !.outcome = "settled", !.op = "call", !.path = Absent,
              !.pending = Null, !.request = [sent |-> TRUE]]

\* oAuth, after its await: { token: this.token!.access, userAgent }
OAuthOpts(t) == IF t = Null THEN [error |-> TRUE] ELSE [error |-> FALSE, token |-> t.access]

\* null, as getRefreshToken returns it
Nothing == "<null>"

getRefreshTokenIfLive ==
    IF token = Null \/ token.expiration < now \/ token.refresh = Absent
    THEN Nothing
    ELSE token.refresh

\* getRefreshToken: this.token?.refresh ?? null
getRefreshToken ==
    IF token = Null THEN Nothing
    ELSE IF token.refresh = Absent THEN Nothing
    ELSE token.refresh

\* Slots are taken in order of invocation.
NextSlot(s) ==
    /\ calls[s].pc = "idle"
    /\ \A o \in Slots : o < s => calls[o].pc # "idle"

\* updateAccessToken up to its await, on slot record c.
UpdateAccessToken(s, c, args) ==
    IF ~creds
    THEN /\ calls' = [calls EXCEPT ![s] = [c EXCEPT !.pc = "done", !.outcome = "No creds"]]
         /\ UNCHANGED exchanges
    ELSE IF TokenValid(args.token, now)
    THEN /\ calls' = [calls EXCEPT ![s] = [c EXCEPT !.pc = "awaitToken", !.pending = args.token]]
         /\ UNCHANGED exchanges
    ELSE /\ exchanges' = Append(exchanges, NewExchange(GrantFor(args.auth), args.auth, s))
         /\ calls' = [calls EXCEPT ![s] = [c EXCEPT !.pc = "exchanging", !.ex = Len(exchanges) + 1]]

\* Client.get / post / postJson up to the first await.
Call(s, op, path) ==
    /\ Usable
    /\ NextSlot(s)
    /\ LET c == [IdleCall EXCEPT !.op = op, !.path = path,
                                 !.route = IF UseOAuth THEN "oauth" ELSE "anon"]
       IN IF UseOAuth
          THEN UpdateAccessToken(s, c, HelperArgs(token, auth))
          ELSE /\ calls' = [calls EXCEPT ![s] = [c EXCEPT !.pc = "requesting",
                                                         !.request = AnonRequest(path)]]
               /\ UNCHANGED exchanges
    /\ UNCHANGED <<creds, auth, token, now, boot, gatewayVars>>

\* Client.reAuth up to the await inside updateAccessToken.
ReAuth(s, d) ==
    /\ Usable
    /\ NextSlot(s)
    /\ LET st == ReAuthState(d)
           c == [IdleCall EXCEPT !.op = "reAuth", !.arg = d]
       IN /\ auth' = st.auth
          /\ token' = st.token
          /\ UpdateAccessToken(s, c, HelperArgs(st.token, st.auth))
    /\ UNCHANGED <<creds, now, boot, gatewayVars>>

\* The await of updateAccessToken resumes after the helper returned the token
\* it was given: this.token = <that token>.
TokenKept(s) ==
    /\ calls[s].pc = "awaitToken"
    /\ token' = StoreToken(token, calls[s].pending)
    /\ calls' = [calls EXCEPT ![s].pc = "opts"]
    /\ UNCHANGED <<creds, auth, now, boot, exchanges, gatewayVars>>

\* The provider grants: the await resumes with a new Token, which is stored.
GrantOk(s, refresh, lifetime) ==
    /\ calls[s].pc = "exchanging"
    /\ refresh \in RefreshVals(exchanges[calls[s].ex].grant)
    /\ exchanges' = Finish(calls[s].ex, "ok")
    /\ token' = StoreToken(token, NewToken(calls[s].ex, refresh, lifetime))
    /\ calls' = [calls EXCEPT ![s] =
                    IF calls[s].op = "reAuth"
                    THEN [@ EXCEPT !.pc = "done", !.outcome = "ok"]
                    ELSE [@ EXCEPT !.pc = "opts"]]
    /\ UNCHANGED <<creds, auth, now, boot, gatewayVars>>

GrantRejectedRollback(s) ==
    /\ calls[s].pc = "exchanging"
    /\ exchanges' = Finish(calls[s].ex, "rejected")
    /\ calls' = [calls EXCEPT ![s] = Rejected(@)]
    /\ auth' = IF calls[s].op = "reAuth" THEN exchanges[1].desc ELSE auth
    /\ UNCHANGED <<creds, token, now, boot, gatewayVars>>

\* The provider rejects the grant: the helper throws.
GrantRejected(s) ==
    /\ calls[s].pc = "exchanging"
    /\ exchanges' = Finish(calls[s].ex, "rejected")
    /\ calls' = [calls EXCEPT ![s] = Rejected(@)]
    /\ UNCHANGED <<creds, auth, token, now, boot, gatewayVars>>

\* oAuth resumes after its await, reads this.token, and the request is issued.
SendRequest(s) ==
    /\ calls[s].pc = "opts"
    /\ LET o == OAuthOpts(token)
       IN calls' = [calls EXCEPT ![s] =
                       IF o.error
                       THEN [@ EXCEPT !.pc = "done", !.outcome = "TypeError"]
                       ELSE [@ EXCEPT !.pc = "requesting",
                                      !.request = OAuthRequest(o, calls[s].path)]]
    /\ UNCHANGED <<creds, auth, token, now, boot, exchanges, gatewayVars>>

\* The resource request completes, with a value or an error.
Respond(s) ==
    /\ calls[s].pc = "requesting"
    /\ calls' = [calls EXCEPT ![s] = Returned(@)]
    /\ UNCHANGED <<creds, auth, token, now, boot, exchanges, gatewayVars>>

FromAuthCodeUnchecked ==
    /\ boot = "code_start"
    /\ boot' = "code_exchanging"
    /\ exchanges' = Append(exchanges, NewExchange("authorization_code", NoAuth, 0))
    /\ UNCHANGED <<creds, auth, token, now, calls, gatewayVars>>

\* fromAuthCode up to its await: the creds check, new this(opts), tokenFromCode.
FromAuthCode ==
    /\ boot = "code_start"
    /\ IF ~creds
       THEN boot' = "code_nocreds" /\ UNCHANGED exchanges
       ELSE /\ boot' = "code_exchanging"
            /\ exchanges' = Append(exchanges, NewExchange("authorization_code", NoAuth, 0))
    /\ UNCHANGED <<creds, auth, token, now, calls, gatewayVars>>

\* client.token = <token>; client.auth = { refreshToken: client.token.refresh! }
CodeOk(refresh, lifetime) ==
    /\ boot = "code_exchanging"
    /\ exchanges' = Finish(Len(exchanges), "ok")
    /\ token' = NewToken(Len(exchanges), refresh, lifetime)
    /\ auth' = TokenAuth(refresh)
    /\ boot' = "code_done"
    /\ UNCHANGED <<creds, now, calls, gatewayVars>>

CodeRejected ==
    /\ boot = "code_exchanging"
    /\ exchanges' = Finish(Len(exchanges), "rejected")
    /\ boot' = "code_rejected"
    /\ UNCHANGED <<creds, auth, token, now, calls, gatewayVars>>

Tick ==
    /\ now < MaxTime
    /\ now' = now + 1
    /\ UNCHANGED <<creds, auth, token, boot, exchanges, calls, gatewayVars>>

Init ==
    /\ creds \in BOOLEAN
    /\ \/ boot = "new" /\ auth \in InitAuths
       \/ boot = "code_start" /\ auth = NoAuth
    /\ token = Null
    /\ now = 0
    /\ exchanges = <<>>
    /\ calls = [s \in Slots |-> IdleCall]
    /\ gw = [pc |-> "idle", endpoint |-> PublicHost]
    /\ rateLimit = NoRateLimit

Next ==
    \/ \E s \in Slots, i \in Inputs : Call(s, i[1], i[2])
    \/ \E s \in Slots, d \in NewAuths : ReAuth(s, d)
    \/ \E s \in Slots : TokenKept(s)
    \/ \E s \in Slots, r \in {Absent, "rt"}, l \in Lifetimes : GrantOk(s, r, l)
    \/ \E s \in Slots : GrantRejected(s)
    \/ \E s \in Slots : SendRequest(s)
    \/ \E s \in Slots : Respond(s)
    \/ FromAuthCode
    \/ \E r \in RefreshVals("authorization_code"), l \in Lifetimes : CodeOk(r, l)
    \/ CodeRejected
    \/ Tick

Spec == Init /\ [][Next]_vars

---------------------------------------------------------------------------
\* JSON values, as the decoded response body holds them

JStr(v) == [type |-> "string", v |-> v]
JNum(v) == [type |-> "number", v |-> v]
JBool(v) == [type |-> "boolean", v |-> v]
JNull == [type |-> "null"]
JUndef == [type |-> "undefined"]
JArr(items) == [type |-> "array", items |-> items]
JObj(fields) == [type |-> "object", fields |-> fields]

\* typeof x
TypeOf(x) == IF x.type \in {"object", "array", "null"} THEN "object" ELSE x.type

\* key in x, for x an object or an array and key not an index
HasKey(key, x) == x.type = "object" /\ key \in DOMAIN x.fields

\* x[key], for x not null or undefined
Get(x, key) == IF HasKey(key, x) THEN x.fields[key] ELSE JUndef

\* x.length > 0 reads x.length: undefined unless x is an array or a string
Length(x) ==
    CASE x.type = "array" -> Len(x.items)
      [] x.type = "string" -> Len(x.v)
      [] OTHER -> 0

\* x[0]
First(x) ==
    CASE x.type = "array" /\ Len(x.items) > 0 -> x.items[1]
      [] x.type = "string" /\ Len(x.v) > 0 -> JStr(SubSeq(x.v, 1, 1))
      [] OTHER -> JUndef

Last(x) ==
    CASE x.type = "array" /\ Len(x.items) > 0 -> x.items[Len(x.items)]
      [] OTHER -> First(x)

\* `${x}` of an array element
ElemTemplate(x) ==
    CASE x.type \in {"string", "number", "boolean"} -> x.v
      [] x.type \in {"null", "undefined"} -> ""
      [] OTHER -> "[object Object]"

RECURSIVE Join(_)
Join(items) ==
    IF Len(items) = 0 THEN ""
    ELSE IF Len(items) = 1 THEN ElemTemplate(items[1])
    ELSE ElemTemplate(items[1]) \o "," \o Join(Tail(items))

\* `${x}`
Template(x) ==
    CASE x.type \in {"string", "number", "boolean"} -> x.v
      [] x.type = "null" -> "null"
      [] x.type = "undefined" -> "undefined"
      [] x.type = "array" -> Join(x.items)
      [] OTHER -> "[object Object]"

\* if (x)
Truthy(x) ==
    CASE x.type = "string" -> x.v # ""
      [] x.type = "number" -> x.v \notin {"0", "NaN"}
      [] x.type = "boolean" -> x.v = "true"
      [] x.type \in {"null", "undefined"} -> FALSE
      [] OTHER -> TRUE

Return(v) == [kind |-> "return", value |-> v]
Throw(name, message) == [kind |-> "throw", name |-> name, message |-> message]
TypeError == Throw("TypeError", "")

---------------------------------------------------------------------------
\* Gateway.handleError and Gateway.unwrap

ErrorPrefix == "Reddit returned an error: "

handleErrorAlwaysDescription(message, description) ==
    Throw("Error", ErrorPrefix \o Template(message) \o ": " \o Template(description))

handleError(message, description) ==
    LET errorMessage == ErrorPrefix \o Template(message)
    IN Throw("Error", IF Truthy(description)
                      THEN errorMessage \o ": " \o Template(description)
                      ELSE errorMessage)

unwrapLastError(response) ==
    IF TypeOf(response) # "object" THEN Return(response)
    ELSE IF response.type = "null" THEN TypeError
    ELSE IF HasKey("json", response)
    THEN LET w == Get(response, "json")
         IN IF w.type \in {"null", "undefined"} THEN TypeError
            ELSE LET errors == Get(w, "errors")
                     data == Get(w, "data")
                 IN IF errors.type \in {"null", "undefined"} THEN TypeError
                    ELSE IF Length(errors) > 0 THEN handleError(Last(errors), JUndef)
                    ELSE Return(data)
    ELSE IF HasKey("error", response)
    THEN handleError(Get(response, "error"), Get(response, "error_description"))
    ELSE Return(response)

unwrapStructuredOnly(response) ==
    IF TypeOf(response) # "object" THEN Return(response)
    ELSE IF response.type = "null" THEN TypeError
    ELSE IF HasKey("json", response)
    THEN LET w == Get(response, "json")
         IN IF w.type \in {"null", "undefined"} THEN TypeError
            ELSE LET errors == Get(w, "errors")
                     data == Get(w, "data")
                 IN IF errors.type \in {"null", "undefined"} THEN TypeError
                    ELSE IF Length(errors) > 0 THEN handleError(First(errors), JUndef)
                    ELSE Return(data)
    ELSE handleError(Get(response, "error"), Get(response, "error_description"))

unwrap(response) ==
    IF TypeOf(response) # "object" THEN Return(response)
    ELSE IF response.type = "null" THEN TypeError
    ELSE IF HasKey("json", response)
    THEN LET w == Get(response, "json")
         IN IF w.type \in {"null", "undefined"} THEN TypeError
            ELSE LET errors == Get(w, "errors")
                     data == Get(w, "data")
                 IN IF errors.type \in {"null", "undefined"} THEN TypeError
                    ELSE IF Length(errors) > 0 THEN handleError(First(errors), JUndef)
                    ELSE Return(data)
    ELSE IF HasKey("error", response)
    THEN handleError(Get(response, "error"), Get(response, "error_description"))
    ELSE Return(response)

---------------------------------------------------------------------------
\* Gateway.updateRatelimit

Num(n) == [nan |-> FALSE, v |-> n]
NaN == [nan |-> TRUE, v |-> 0]

\* The rate-limit headers a response may carry; Absent is a missing header.
Headers ==
    {[remaining |-> "59", reset |-> "600"], [remaining |-> Absent, reset |-> Absent],
     [remaining |-> "abc", reset |-> "600"], [remaining |-> "59", reset |-> Absent],
     [remaining |-> "0", reset |-> "1"]}

\* parseInt(h)
ParseInt(h) ==
    CASE h = "59" -> Num(59)
      [] h = "600" -> Num(600)
      [] h = "0" -> Num(0)
      [] h = "1" -> Num(1)
      [] OTHER -> NaN

Times(a, n) == IF a.nan THEN NaN ELSE Num(a.v * n)
Plus(n, a) == IF a.nan THEN NaN ELSE Num(n + a.v)

\* Date.now() in milliseconds: a tick of the clock is one second.
DateNow == now * 1000

updateRatelimitSeconds(headers) ==
    LET remain == ParseInt(headers.remaining)
        reset == ParseInt(headers.reset)
    IN [remaining |-> remain, reset |-> Plus(DateNow, reset)]

updateRatelimit(headers) ==
    LET remain == ParseInt(headers.remaining)
        reset == Times(ParseInt(headers.reset), 1000)
    IN [remaining |-> remain, reset |-> Plus(DateNow, reset)]

---------------------------------------------------------------------------
\* Gateway.get / post / postJson

Marker == [api_type |-> "json"]

\* { api_type: "json", ...form }
WithMarker(data) == Merge(Marker, data)

Queries == {NoQuery, [api_type |-> "xml"]}
Payloads == {NoQuery, [text |-> "hi"], [api_type |-> "xml"]}
GwAuths == {NoGwAuth, BearerAuth(1), BasicAuth("cid", "")}

Wrapper(errors, data) ==
    JObj([json |-> JObj([errors |-> JArr(errors), data |-> data])])

Bodies ==
    {JStr("ok"), JStr(""), JNum("7"), JBool("false"), JNull, JArr(<<JStr("x")>>),
     JObj([foo |-> JStr("bar")]),
     JObj([error |-> JStr("404"), error_description |-> JStr("not found")]),
     JObj([error |-> JStr("404"), error_description |-> JStr("")]),
     JObj([error |-> JStr("403")]),
     JObj([error |-> JNum("404"), error_description |-> JNull]),
     JObj([json |-> JObj([data |-> JStr("d")])]),
     JObj([json |-> JObj([errors |-> JArr(<<>>)])]),
     JObj([json |-> JNull]),
     JObj([json |-> JObj([errors |-> JArr(<<>>), data |-> JNull]),
           error |-> JStr("500")])}
    \cup {Wrapper(e, d) :
            e \in {<<>>, <<JStr("bad thing")>>, <<JStr("first"), JStr("second")>>,
                   <<JStr("second"), JStr("first")>>,
                   <<JArr(<<JStr("BAD"), JStr("msg")>>)>>},
            d \in {JNull, JObj([ok |-> JBool("true")])}}

\* The call has settled: the decoded body it got, if any, and its result.
GwDone(response, result) ==
    [pc |-> "done", endpoint |-> gw.endpoint, response |-> response, result |-> result]

\* get / post / postJson up to the await of this.auth() in buildOptions.
GwCall(op, query, data) ==
    /\ gw.pc = "idle"
    /\ gw' = [pc |-> "auth", op |-> op, endpoint |-> gw.endpoint, query |-> query,
              body |-> IF op = "get" THEN NoQuery ELSE WithMarker(data)]
    /\ UNCHANGED <<clientVars, rateLimit>>

\* auth() resolves; the options are complete and the request is issued.
GwSend(a) ==
    /\ gw.pc = "auth"
    /\ gw' = [gw EXCEPT !.pc = "sent"] @@ [options |-> buildOptions(gw.endpoint, gw.query, a)]
    /\ UNCHANGED <<clientVars, rateLimit>>

\* auth() throws: the call fails before any request.
GwAuthFails ==
    /\ gw.pc = "auth"
    /\ gw' = GwDone(JUndef, Throw("AuthError", ""))
    /\ UNCHANGED <<clientVars, rateLimit>>

\* A response arrives: the afterResponse hook runs on its headers, over the
\* snapshot it finds.
GwResponse(headers) ==
    /\ gw.pc = "sent"
    /\ rateLimit' = updateRatelimit(headers)
    /\ gw' = [gw EXCEPT !.pc = "received"] @@ [headers |-> headers, before |-> rateLimit]
    /\ UNCHANGED clientVars

\* No response: the request fails.
GwTransportFails ==
    /\ gw.pc = "sent"
    /\ gw' = GwDone(JUndef, Throw("TransportError", ""))
    /\ UNCHANGED <<clientVars, rateLimit>>

\* .json() rejects: the response has an error status or no JSON body.
GwBodyFails ==
    /\ gw.pc = "received"
    /\ gw' = GwDone(JUndef, Throw("HTTPError", ""))
    /\ UNCHANGED <<clientVars, rateLimit>>

GwUnwrapBeforeHook(body) ==
    /\ gw.pc = "sent"
    /\ gw' = GwDone(body, unwrap(body))
    /\ UNCHANGED <<clientVars, rateLimit>>

\* .json() resolves with the decoded body, which is unwrapped.
GwUnwrap(body) ==
    /\ gw.pc = "received"
    /\ gw' = GwDone(body, unwrap(body))
    /\ UNCHANGED <<clientVars, rateLimit>>

\* The call has returned; the Gateway takes the next one.
GwReturn ==
    /\ gw.pc = "done"
    /\ gw' = [pc |-> "idle", endpoint |-> gw.endpoint]
    /\ UNCHANGED <<clientVars, rateLimit>>

GatewayInit ==
    /\ creds = FALSE
    /\ auth = NoAuth
    /\ token = Null
    /\ now = 0
    /\ boot = "new"
    /\ exchanges = <<>>
    /\ calls = [s \in Slots |-> IdleCall]
    /\ gw \in {[pc |-> "idle", endpoint |-> e] : e \in {PublicHost, OAuthHost}}
    /\ rateLimit = NoRateLimit

GatewayNext ==
    \/ \E op \in CallOps, q \in Queries, d \in Payloads : GwCall(op, q, d)
    \/ \E a \in GwAuths : GwSend(a)
    \/ GwAuthFails
    \/ \E h \in Headers : GwResponse(h)
    \/ GwTransportFails
    \/ GwBodyFails
    \/ \E b \in Bodies : GwUnwrap(b)
    \/ GwReturn
    \/ Tick

GatewaySpec == GatewayInit /\ [][GatewayNext]_vars

---------------------------------------------------------------------------
\* Properties of the Client (Spec)

Protected(s) == calls[s].route # "none"
Live(t, n) == t # Null /\ t.expiration >= n
ExchangesBy(S) == {i \in 1..Len(exchanges) : exchanges[i].by \in S}
Bearer(s) == calls[s].request.options.Authorization
GrantOfKind(kind) ==
    IF kind = "password" THEN "password"
    ELSE IF kind = "refresh" THEN "refresh_token"
    ELSE "client_credentials"

\* Slot s starts a get, post or postJson in this step.
Starts(s) == calls[s].pc = "idle" /\ calls'[s].pc # "idle" /\ calls'[s].route # "none"
\* The exchange of slot s is granted, or rejected, in this step.
Granted(s) ==
    /\ calls[s].pc = "exchanging" /\ calls'[s].pc # "exchanging"
    /\ exchanges'[calls[s].ex].status = "ok"
Refused(s) ==
    /\ calls[s].pc = "exchanging" /\ calls'[s].pc # "exchanging"
    /\ exchanges'[calls[s].ex].status = "rejected"

\* C1: every get, post or postJson takes the OAuth path if and only if the
\* Client has Credentials, whatever its path, its operation, the stored
\* descriptor or the stored Token; so all calls of one Client take the same
\* path, and the Credentials never change.
C1_RouteIffCreds ==
    \A s \in Slots : Protected(s) =>
        /\ calls[s].route = "oauth" <=> creds
        /\ calls[s].route = "anon" <=> ~creds
        /\ calls[s].route = "anon" => calls[s].ex = 0 /\ calls[s].pc \in {"requesting", "done"}
        /\ calls[s].pc = "requesting" =>
              (calls[s].request.options.prefixUrl = OAuthHost <=> creds)

\* A Client with Credentials took the OAuth path for a call that found no
\* Token and for a later call, of another operation and path, that found one.
C1_Witness ==
    /\ creds
    /\ calls[1].route = "oauth" /\ calls[1].ex # 0 /\ calls[1].pc = "done"
    /\ calls[2].route = "oauth" /\ calls[2].ex = 0 /\ calls[2].op = "post"
    /\ calls[2].path = "/api/b" /\ calls[2].pc = "awaitToken"

\* The scenario of C2: the first call on the Client is a reAuth that
\* succeeded, the second a protected call, and there is no other call.
C2_Scenario ==
    /\ calls[1].op = "reAuth" /\ calls[1].outcome = "ok"
    /\ Protected(2)
    /\ \A o \in Slots : o > 2 => calls[o].pc = "idle"

C2_State ==
    (C2_Scenario /\ calls[2].ex = 0) =>
        /\ calls[1].ex # 0
        /\ ExchangesBy({1, 2}) = {calls[1].ex}
        /\ exchanges[calls[1].ex].desc = calls[1].arg
        /\ exchanges[calls[1].ex].grant = GrantOfKind(calls[1].arg.kind)
        /\ exchanges[calls[1].ex].status = "ok"
        /\ calls[2].pc = "awaitToken" => calls[2].pending.access = calls[1].ex
        /\ calls[2].pc = "requesting" => Bearer(2) = <<"bearer", calls[1].ex>>
        /\ calls[2].outcome \notin {"AuthError", "TypeError", "No creds"}

C2_Step ==
    (Starts(2) /\ calls[1].op = "reAuth" /\ calls[1].outcome = "ok" /\ Live(token, now)) =>
        /\ exchanges' = exchanges
        /\ calls'[2].ex = 0
        /\ calls'[2].pending = token
        /\ token.access = calls[1].ex

\* C2: a reAuth(d) that succeeded, followed by one protected call started
\* before the Token's expiry: the two together make exactly one grant
\* exchange, made by reAuth with descriptor d, and the call's bearer value is
\* the access value that exchange returned.
C2_ReAuthThenCall == [](C2_State) /\ [][C2_Step]_vars

\* reAuth replaced a different descriptor, a Token of the previous
\* descriptor had been stored, and the following call has issued its request.
C2_Witness ==
    /\ C2_Scenario /\ calls[2].ex = 0 /\ calls[2].pc = "requesting"
    /\ Len(exchanges) = 2 /\ exchanges[1].status = "ok"
    /\ exchanges[1].desc # exchanges[2].desc
    /\ Bearer(2) = <<"bearer", 2>>

\* The statement of C3 as given: any step that changes the stored
\* descriptor leaves the stored Token empty.
C3_Original == [][auth' # auth => token' = Null]_vars

\* C3: a step that changes the stored descriptor either empties the stored
\* Token (reAuth) or is the completion of fromAuthCode, which stores the
\* Token it has just obtained together with a refresh-token descriptor made
\* of that Token's refresh value.
C3_DescriptorChange ==
    [][auth' # auth =>
          \/ token' = Null
          \/ /\ boot = "code_exchanging" /\ boot' = "code_done"
             /\ token' # Null
             /\ auth' = TokenAuth(token'.refresh)]_vars

\* reAuth has replaced the descriptor of a Client that held a Token.
C3_Witness ==
    \E s \in Slots :
        /\ calls[s].op = "reAuth" /\ calls[s].pc = "exchanging"
        /\ auth = calls[s].arg /\ token = Null
        /\ \E i \in 1..Len(exchanges) : exchanges[i].status = "ok" /\ exchanges[i].desc # auth

C4_Step ==
    \A s \in Slots :
        /\ (Starts(s) /\ creds /\ ~Live(token, now)) =>
              /\ calls'[s].pc = "exchanging"
              /\ Len(exchanges') = Len(exchanges) + 1
              /\ calls'[s].ex = Len(exchanges')
        /\ Granted(s) => token' # Null /\ token'.access = calls[s].ex

\* C4: a protected call that finds no live Token starts its own grant
\* exchange even when another exchange is in flight, and every exchange that
\* is granted overwrites the stored Token, so the Token left by overlapping
\* exchanges is that of the one granted last.
C4_NotSingleFlight == [][C4_Step]_vars

\* Two protected calls have an exchange in flight at once.
C4_Witness ==
    /\ Protected(1) /\ Protected(2)
    /\ calls[1].pc = "exchanging" /\ calls[2].pc = "exchanging"
    /\ InFlight = {calls[1].ex, calls[2].ex}
    /\ calls[1].ex # calls[2].ex

C5_Step ==
    \A s \in Slots :
        /\ (Starts(s) /\ creds /\ Live(token, now)) =>
              /\ exchanges' = exchanges
              /\ calls'[s].ex = 0
              /\ calls'[s].pc = "awaitToken"
              /\ calls'[s].pending = token
              /\ token' = token
        /\ (calls[s].pc = "awaitToken" /\ calls'[s].pc # "awaitToken") =>
              /\ token' = calls[s].pending
              /\ exchanges' = exchanges
        /\ (Starts(s) /\ Len(exchanges') > Len(exchanges)) => ~Live(token, now)

\* C5: a protected call made while the stored Token is not past its expiry
\* makes no grant exchange, and what it stores is the very Token it found;
\* a protected call makes an exchange only when the stored Token is absent
\* or expired.
C5_LiveTokenKept == [][C5_Step]_vars

\* A protected call found a live Token and has stored it back.
C5_Witness ==
    \E s \in Slots :
        /\ Protected(s) /\ calls[s].pc = "opts" /\ calls[s].ex = 0
        /\ token # Null /\ token = calls[s].pending

\* The statement of C6 as given: when the exchange of a protected call is
\* rejected the call fails with the auth error, has issued no request, and
\* the Client then holds no live Token.
C6_Original ==
    [][\A s \in Slots : (Refused(s) /\ Protected(s)) =>
          /\ calls'[s].outcome = "AuthError"
          /\ calls'[s].request = NoRequest
          /\ ~Live(token', now')]_vars

C6_State ==
    \A s \in Slots : calls[s].outcome = "AuthError" =>
        /\ calls[s].pc = "done"
        /\ calls[s].request = NoRequest
        /\ exchanges[calls[s].ex].status = "rejected"
        /\ (\A o \in Slots \ {s} : calls[o].pc = "idle") => ~Live(token, now)

C6_Step ==
    \A s \in Slots : (Refused(s) /\ Protected(s)) =>
        /\ calls'[s].outcome = "AuthError"
        /\ calls'[s].pc = "done"
        /\ calls'[s].request = NoRequest
        /\ token' = token

\* C6: when the exchange of a protected call is rejected the call fails
\* with the auth error, issues no request, and does not touch the stored
\* Token; on a Client with no other call the Token is then absent or expired.
C6_RejectedGrant == [](C6_State) /\ [][C6_Step]_vars

\* A rejected call on a Client whose expired Token is still stored.
C6_Witness ==
    /\ Protected(1) /\ calls[1].outcome = "AuthError"
    /\ \A o \in Slots \ {1} : calls[o].pc = "idle"
    /\ token # Null /\ token.expiration < now

\* C7: every exchange a call makes uses the grant of the descriptor it was
\* given (password, refresh-token, or client-credentials for none), every
\* request on the OAuth path carries `bearer <access>` of a granted
\* exchange, and on a Client constructed with Credentials and a
\* username/password descriptor, never re-authorized, that exchange was a
\* password grant.
C7_GrantByDescriptor ==
    /\ \A i \in 1..Len(exchanges) : exchanges[i].by # 0 =>
          exchanges[i].grant = GrantOfKind(exchanges[i].desc.kind)
    /\ \A s \in Slots : (calls[s].route = "oauth" /\ calls[s].pc = "requesting") =>
          /\ Len(Bearer(s)) = 2 /\ Bearer(s)[1] = "bearer"
          /\ Bearer(s)[2] \in 1..Len(exchanges)
          /\ exchanges[Bearer(s)[2]].status = "ok"
          /\ calls[s].request.options.prefixUrl = OAuthHost
          /\ (boot = "new" /\ auth.kind = "password"
                /\ \A o \in Slots : calls[o].op # "reAuth") =>
                exchanges[Bearer(s)[2]].grant = "password"

\* A get on a Client constructed with a username/password descriptor has
\* issued its request with the access value of a password grant.
C7_Witness ==
    /\ creds /\ boot = "new" /\ auth = UsernameAuth("u1:p1")
    /\ calls[1].op = "get" /\ calls[1].pc = "requesting"
    /\ Bearer(1) = <<"bearer", 1>> /\ exchanges[1].grant = "password"

\* C8: on a Client without Credentials no grant exchange is ever made and
\* every request issued carries no Authorization header, no basic
\* credentials, and goes to the public host.
C8_AnonymousClient ==
    ~creds =>
        /\ exchanges = <<>>
        /\ token = Null
        /\ \A s \in Slots :
              /\ calls[s].ex = 0
              /\ calls[s].pc = "requesting" =>
                    /\ Bearer(s) = NoHeader
                    /\ calls[s].request.options.username = Absent
                    /\ calls[s].request.options.prefixUrl = PublicHost

\* A Client without Credentials has completed one call and issued another.
C8_Witness ==
    /\ ~creds
    /\ calls[1].pc = "done" /\ calls[1].outcome = "settled"
    /\ calls[2].pc = "requesting" /\ calls[2].op = "post"

---------------------------------------------------------------------------
\* Properties of the Gateway (GatewaySpec)

Unwrapped == gw.pc = "done" /\ gw.response # JUndef

\* The body has the result-wrapper key, holding an errors array.
IsWrapper(r) ==
    /\ r.type = "object" /\ "json" \in DOMAIN r.fields
    /\ r.fields.json.type = "object"
    /\ "errors" \in DOMAIN r.fields.json.fields
    /\ r.fields.json.fields.errors.type = "array"

\* C9: for a body with the result-wrapper key, a non-empty errors sequence
\* makes unwrap fail with the error built from its first element alone, and
\* an empty one makes it return the wrapper's data value.
C9_UnwrapWrapper ==
    (Unwrapped /\ IsWrapper(gw.response)) =>
        LET w == gw.response.fields.json.fields
            errors == w.errors.items
        IN IF Len(errors) > 0
           THEN gw.result = Throw("Error", "Reddit returned an error: " \o Template(errors[1]))
           ELSE gw.result = Return(IF "data" \in DOMAIN w THEN w.data ELSE JUndef)

\* unwrap failed on a wrapper with two errors.
C9_Witness ==
    /\ Unwrapped
    /\ gw.response = Wrapper(<<JStr("first"), JStr("second")>>, JObj([ok |-> JBool("true")]))
    /\ gw.result = Throw("Error", "Reddit returned an error: first")

\* The body has no result-wrapper key and has a top-level error field.
IsErrorBody(r) ==
    r.type = "object" /\ "json" \notin DOMAIN r.fields /\ "error" \in DOMAIN r.fields

Description(r) ==
    IF "error_description" \in DOMAIN r.fields THEN r.fields.error_description ELSE JUndef

\* The statement of C10 as given: the description is appended exactly when
\* the body has one.
C10_Original ==
    (Unwrapped /\ IsErrorBody(gw.response)) =>
        LET d == Description(gw.response)
            head == "Reddit returned an error: " \o Template(gw.response.fields.error)
        IN gw.result = Throw("Error", IF d.type \notin {"undefined", "null"}
                                      THEN head \o ": " \o Template(d)
                                      ELSE head)

\* C10: for a body without the result-wrapper key and with a top-level
\* error field, unwrap fails with "Reddit returned an error: <error>",
\* followed by ": <description>" exactly when the body has a description
\* that is not empty (not falsy).
C10_UnwrapError ==
    (Unwrapped /\ IsErrorBody(gw.response)) =>
        LET d == Description(gw.response)
            head == "Reddit returned an error: " \o Template(gw.response.fields.error)
            empty == \/ d.type \in {"undefined", "null"}
                     \/ d.type \in {"string", "number", "boolean"}
                          /\ d.v \in {"", "0", "NaN", "false"}
        IN gw.result = Throw("Error", IF empty THEN head ELSE head \o ": " \o Template(d))

\* unwrap failed on {error: "404", error_description: "not found"}.
C10_Witness ==
    /\ Unwrapped
    /\ gw.response = JObj([error |-> JStr("404"), error_description |-> JStr("not found")])
    /\ gw.result = Throw("Error", "Reddit returned an error: 404: not found")

\* The body is a bare string, number or boolean.
IsBare(r) == r.type \in {"string", "number", "boolean"}

\* The body is an object or an array with neither the result-wrapper key
\* nor a top-level error key.
IsPlain(r) ==
    \/ r.type = "array"
    \/ r.type = "object" /\ "json" \notin DOMAIN r.fields /\ "error" \notin DOMAIN r.fields

\* C11: unwrap returns the body itself, and does not fail, for every bare
\* string, number or boolean and for every object or array that has neither
\* the result-wrapper key nor a top-level error key.
C11_UnwrapPassThrough ==
    (Unwrapped /\ (IsBare(gw.response) \/ IsPlain(gw.response))) =>
        gw.result = Return(gw.response)

\* unwrap returned {foo: "bar"} as it was.
C11_Witness ==
    /\ Unwrapped
    /\ gw.response = JObj([foo |-> JStr("bar")])
    /\ gw.result = Return(JObj([foo |-> JStr("bar")]))

\* The header is present and parseInt reads a number from it.
Numeric(h) == \neg ParseInt(h).nan

\* C12: a response whose remaining-count or reset-delta header is missing or
\* not numeric leaves the rate-limit snapshot as it was before the response,
\* and the hook raises no error.
C12_BadHeadersKeepSnapshot ==
    (gw.pc = "received" /\ ~(Numeric(gw.headers.remaining) /\ Numeric(gw.headers.reset))) =>
        rateLimit = gw.before

\* The numbers the numeric headers stand for.
HeaderValue(h) ==
    CASE h = "59" -> 59
      [] h = "600" -> 600
      [] h = "0" -> 0
      [] h = "1" -> 1

\* C13: the step that receives a response with numeric headers remaining=r
\* and reset=d sets the snapshot to {remaining: r, reset: now + d*1000 ms},
\* whatever the snapshot was before.
C13_NumericHeaders ==
    [][(gw.pc = "sent" /\ gw'.pc = "received"
          /\ Numeric(gw'.headers.remaining) /\ Numeric(gw'.headers.reset)) =>
          rateLimit' = [remaining |-> Num(HeaderValue(gw'.headers.remaining)),
                        reset |-> Num(now * 1000
                                        + HeaderValue(gw'.headers.reset) * 1000)]]_vars

\* A response with remaining=59 and reset=600 has replaced the snapshot of
\* an earlier response.
C13_Witness ==
    /\ gw.pc = "received"
    /\ gw.headers = [remaining |-> "59", reset |-> "600"]
    /\ gw.before = [remaining |-> Num(0), reset |-> Num(1000)]
    /\ now = 1
    /\ rateLimit = [remaining |-> Num(59), reset |-> Num(601000)]

\* C14: the body of every post and postJson request that is sent carries
\* api_type = "json", whatever the payload, one holding api_type with another
\* value included.
C14_MarkerInBody ==
    (gw.pc = "sent" /\ gw.op \in {"post", "postJson"}) =>
        /\ "api_type" \in DOMAIN gw.body
        /\ gw.body.api_type = "json"

---------------------------------------------------------------------------
\* Properties of fromAuthCode (Spec)

\* fromAuthCode succeeds in this step.
CodeSucceeds == boot = "code_exchanging" /\ boot' = "code_done"

\* C15: when fromAuthCode succeeds the Client holds the Token of the
\* authorization-code exchange; if that Token has a refresh value the stored
\* descriptor is the refresh-token descriptor of that value, and if it has
\* none the stored descriptor is not a refresh-token descriptor.
C15_CodeSeedsDescriptor ==
    [][CodeSucceeds =>
          /\ token' # Null
          /\ token'.access = Len(exchanges)
          /\ exchanges'[Len(exchanges)].grant = "authorization_code"
          /\ exchanges'[Len(exchanges)].status = "ok"
          /\ token'.refresh # Absent => auth' = TokenAuth(token'.refresh)
          /\ token'.refresh = Absent => auth'.kind # "refresh"]_vars

\* C16: fromAuthCode on options without Credentials fails with "No creds":
\* no Client is constructed, no exchange is made, nothing is stored and no
\* call is ever made; without Credentials it never reaches the exchange.
C16_NoCredsNoClient ==
    /\ boot = "code_nocreds" =>
          /\ ~creds /\ ~Constructed
          /\ exchanges = <<>> /\ token = Null /\ auth = NoAuth
          /\ \A s \in Slots : calls[s] = IdleCall
    /\ (~creds /\ boot # "new") => boot \in {"code_start", "code_nocreds"}

\* fromAuthCode has failed for want of Credentials, later on the clock.
C16_Witness == boot = "code_nocreds" /\ ~creds /\ now > 0 /\ exchanges = <<>>

---------------------------------------------------------------------------
\* Properties of a single call (Spec)

C17_State ==
    \A s \in Slots : Protected(s) =>
        /\ ExchangesBy({s}) = (IF calls[s].ex = 0 THEN {} ELSE {calls[s].ex})
        /\ calls[s].outcome \in {"AuthError", "No creds", "TypeError"} =>
              calls[s].pc = "done" /\ calls[s].request = NoRequest

C17_Step ==
    \A s \in Slots :
        /\ calls[s].pc = "done" => calls'[s] = calls[s]
        /\ ExchangesBy({s})' # ExchangesBy({s}) =>
              calls[s].pc = "idle" /\ ExchangesBy({s}) = {}
        /\ (Protected(s) /\ calls'[s].pc = "requesting" /\ calls[s].pc # "requesting") =>
              calls[s].request = NoRequest
        /\ (Protected(s) /\ calls[s].pc = "requesting" /\ calls'[s].pc # "requesting") =>
              calls'[s].pc = "done"
        /\ (Protected(s) /\ Refused(s)) =>
              calls'[s].pc = "done" /\ calls'[s].outcome = "AuthError"

\* C17: nothing is retried. One get, post or postJson makes at most one
\* grant exchange and issues at most one resource request; when its exchange
\* is rejected it fails with that error without a request, when its request
\* completes, with a value or an error, the call is over, and a call that is
\* over does nothing more.
C17_NoRetry == [](C17_State) /\ [][C17_Step]_vars

\* One call failed on its rejected exchange; a later call made its own
\* exchange, issued its request and is over.
C17_Witness ==
    /\ Protected(1) /\ calls[1].outcome = "AuthError"
    /\ Protected(2) /\ calls[2].pc = "done" /\ calls[2].outcome = "settled"
    /\ calls[2].ex = 2 /\ Len(exchanges) = 2
    /\ calls[2].request # NoRequest

\* The statement of C18 as given: getRefreshToken returns the refresh value
\* of the stored Token only while that Token is not expired, and nothing
\* when no Token is stored, when it has no refresh value, or when it is
\* expired.
C18_Original ==
    Usable =>
        getRefreshToken = (IF Live(token, now) /\ token.refresh # Absent
                           THEN token.refresh ELSE Nothing)

\* C18: in every state of a Client, getRefreshToken returns the refresh
\* value of the stored Token, expired or not, and nothing exactly when no
\* Token is stored or the stored Token has no refresh value.
C18_StoredRefresh ==
    Usable =>
        /\ (token = Null \/ token.refresh = Absent) <=> getRefreshToken = Nothing
        /\ (token # Null /\ token.refresh # Absent) => getRefreshToken = token.refresh

\* The stored Token has expired and its refresh value is still returned.
C18_Witness ==
    /\ Usable /\ token # Null /\ token.expiration < now
    /\ token.refresh = "rt" /\ getRefreshToken = "rt"

---------------------------------------------------------------------------
\* Properties of a Gateway call (GatewaySpec)

C19_State ==
    /\ gw.pc \in {"sent", "received"} => "options" \in DOMAIN gw
    /\ gw.pc = "received" =>
          /\ rateLimit # NoRateLimit
          /\ rateLimit.remaining = ParseInt(gw.headers.remaining)
    /\ Unwrapped => rateLimit # NoRateLimit

C19_Step ==
    /\ (gw'.pc = "sent" /\ gw.pc # "sent") => gw.pc = "auth" /\ rateLimit' = rateLimit
    /\ (gw'.pc = "received" /\ gw.pc # "received") =>
          gw.pc = "sent" /\ rateLimit' = updateRatelimit(gw'.headers)
    /\ (Unwrapped' /\ gw.pc # "done") =>
          /\ gw.pc = "received"
          /\ gw'.result = unwrap(gw'.response)
          /\ rateLimit' = rateLimit
          /\ rateLimit.remaining = ParseInt(gw.headers.remaining)
    /\ (gw.pc = "auth" /\ gw'.pc = "done") =>
          /\ gw'.result = Throw("AuthError", "") /\ gw'.response = JUndef
          /\ rateLimit' = rateLimit
    /\ rateLimit' # rateLimit => gw.pc = "sent" /\ gw'.pc = "received"

\* C19: a Gateway call resolves auth(), then issues its request, then
\* records the rate limit of the response, then unwraps the body: a request
\* is issued only after auth() resolved, the snapshot changes only when a
\* response to an issued request arrives, a body is unwrapped only after
\* the snapshot took its response's headers (so also when unwrap fails), and
\* a call whose auth() fails issues no request and leaves the snapshot as it
\* was.
C19_CallOrder == [](C19_State) /\ [][C19_Step]_vars

\* unwrap has failed on {error: "403"} with the snapshot holding the
\* headers (remaining 0, reset 1) of a response received at 1 s.
C19_Witness ==
    /\ Unwrapped
    /\ gw.response = JObj([error |-> JStr("403")])
    /\ gw.result = Throw("Error", "Reddit returned an error: 403")
    /\ now = 1
    /\ rateLimit = [remaining |-> Num(0), reset |-> Num(2000)]

---------------------------------------------------------------------------
\* Properties of concurrent calls (Spec)

\* C20: whenever a get, post or postJson, its own token update done, reads
\* the stored Token in oAuth to make its bearer credential, the stored Token
\* is not null, whatever calls and reAuths run concurrently.
C20_TokenReadNonNull ==
    [][\A s \in Slots :
          (Protected(s) /\ calls[s].pc = "opts" /\ calls'[s].pc # "opts") =>
              /\ token # Null
              /\ calls'[s].outcome # "TypeError"]_vars

\* reAuth of slot s has succeeded, no reAuth was called after it, and every
\* exchange started before its own has completed.
ReAuthSettled(s) ==
    /\ calls[s].op = "reAuth" /\ calls[s].outcome = "ok"
    /\ \A o \in Slots : o > s => calls[o].op # "reAuth"
    /\ \A i \in 1..Len(exchanges) : i < calls[s].ex => exchanges[i].status # "inflight"

\* C21: once reAuth(d) has succeeded and every exchange that was in flight
\* when it was called has completed, the stored Token is one issued by an
\* exchange that used descriptor d, never the late result of an exchange
\* started with the previous descriptor.
C21_TokenOfNewDescriptor ==
    \A s \in Slots : ReAuthSettled(s) =>
        /\ token # Null
        /\ exchanges[token.access].desc = calls[s].arg

\* reAuth of slot s has failed.
ReAuthFailed(s) ==
    calls[s].op = "reAuth" /\ calls[s].outcome \in {"No creds", "AuthError"}

\* No call but that of slot s has been made on the Client.
Alone(s) == \A o \in Slots \ {s} : calls[o].pc = "idle"

C22_State ==
    \A s \in Slots : (ReAuthFailed(s) /\ Alone(s)) =>
        /\ auth = calls[s].arg
        /\ token = Null

C22_Step ==
    \A s \in Slots :
        /\ (calls[s].pc = "idle" /\ calls'[s].op = "reAuth") =>
              /\ auth' = calls'[s].arg /\ token' = Null
              /\ ~creds => calls'[s].pc = "done" /\ calls'[s].outcome = "No creds"
        /\ (calls[s].op = "reAuth" /\ Refused(s)) =>
              /\ calls'[s].outcome = "AuthError"
              /\ auth' = auth /\ token' = token
        /\ (calls[s].op = "reAuth" /\ calls[s].pc = "exchanging"
              /\ calls'[s].pc = "exchanging"
              /\ (auth' # auth \/ token' # token)) =>
              \E o \in Slots \ {s} : calls'[o] # calls[o]

\* C22: reAuth(d) is not atomic on failure. Its first step stores d and
\* empties the Token, failing at once when there are no Credentials; a
\* rejected grant fails it without touching either field; and while it waits
\* only another call changes them. So when it fails with no other call on
\* the Client, the stored descriptor is d and the stored Token is null: the
\* previous descriptor and Token are not restored.
C22_ReAuthNotAtomic == [](C22_State) /\ [][C22_Step]_vars

\* A Client made by fromAuthCode held a Token and a refresh-token
\* descriptor; its first call, a reAuth, was rejected and left the new
\* descriptor and no Token.
C22_Witness ==
    /\ boot = "code_done" /\ exchanges[1].status = "ok"
    /\ ReAuthFailed(1) /\ Alone(1) /\ calls[1].outcome = "AuthError"
    /\ auth = calls[1].arg /\ auth # TokenAuth("rt")
    /\ token = Null

---------------------------------------------------------------------------
\* Totality of unwrap (GatewaySpec)

\* The values unwrap may hand to handleError as the message of body r.
Messages(r) ==
    IF r.type # "object" THEN {}
    ELSE IF "json" \in DOMAIN r.fields
    THEN LET w == r.fields.json
         IN IF w.type = "object" /\ "errors" \in DOMAIN w.fields
                 /\ w.fields.errors.type = "array"
            THEN {w.fields.errors.items[i] : i \in 1..Len(w.fields.errors.items)}
            ELSE {}
    ELSE IF "error" \in DOMAIN r.fields THEN {r.fields.error}
    ELSE {}

\* res is an ApiError of the shape "Reddit returned an error: <message>",
\* with or without ": <description>", for body r.
IsApiError(r, res) ==
    /\ res.kind = "throw" /\ res.name = "Error"
    /\ \E m \in Messages(r) :
          \/ res.message = ErrorPrefix \o Template(m)
          \/ /\ r.type = "object" /\ "error_description" \in DOMAIN r.fields
             /\ res.message = ErrorPrefix \o Template(m) \o ": "
                                \o Template(r.fields.error_description)

\* C23: unwrap is total over decoded bodies: for every body, null, arrays
\* and wrappers without an errors or data slot included, it either returns
\* a value or fails with an ApiError of the "returned an error" shape, and
\* in no other way.
C23_UnwrapTotal ==
    Unwrapped => (gw.result.kind = "return" \/ IsApiError(gw.response, gw.result))

====
